---------------------------- MODULE Spec2Model ----------------------------
(* A model of the tourist-nights analysis pipeline (tourist_analysis.py)   *)
(* and of the interactive viewer built on it (tourist_desktop_app.py).     *)
(*                                                                         *)
(* A data frame is a sequence of records, in row order.  A cell that may   *)
(* hold NaN is an option: <<>> is NaN and <<v>> is the number v.  A mean   *)
(* is an exact fraction [num, den] in lowest terms (den > 0).              *)
EXTENDS Integers, Sequences, FiniteSets

(***************************************************************************)
(* Bounds of the explored inputs.                                          *)
(***************************************************************************)
MaxVal == 2
MaxTopN == 3
MaxDepth == 2

(* Entity codes and visitor categories of the explored files, each listed  *)
(* in ascending order (the order pandas sorts group keys in).              *)
Geos == <<"AT", "PL">>
Cats == <<"Domestic country", "Foreign country">>

(***************************************************************************)
(* Cells and fractions.                                                    *)
(***************************************************************************)
NaN == <<>>
Some(v) == <<v>>
isna(c) == c = NaN

Range(s) == {s[i] : i \in DOMAIN s}

RECURSIVE Gcd(_, _)
Gcd(a, b) == IF b = 0 THEN a ELSE Gcd(b, a % b)

Frac(n, d) == LET g == Gcd(n, d) IN [num |-> n \div g, den |-> d \div g]
FracLess(a, b) == a.num * b.den < b.num * a.den
FracLeq(a, b) == a.num * b.den <= b.num * a.den
FracDiv(a, b) == Frac(a.num * b.den, a.den * b.num)
One == Frac(1, 1)
Zero == Frac(0, 1)

(* The sum of a sequence of numbers, by halves. *)
RECURSIVE SumSeq(_)
SumSeq(s) ==
    IF Len(s) = 0 THEN 0
    ELSE IF Len(s) = 1 THEN s[1]
    ELSE LET h == Len(s) \div 2
         IN SumSeq(SubSeq(s, 1, h)) + SumSeq(SubSeq(s, h + 1, Len(s)))

(***************************************************************************)
(* load_data: the CSV text becomes a frame.  A TIME_PERIOD field is the    *)
(* text "y-m"; it parses under '%Y-%m' only when m is a month.  An empty   *)
(* TIME_PERIOD field (NoPeriod) is read as a null and converted to NaT     *)
(* without an error; the year and month of NaT are missing, written 0.     *)
(* An OBS_VALUE field is a number, an empty field or another token.        *)
(***************************************************************************)
NoPeriod == [y |-> 0, m |-> 0]
NaT == [year |-> 0, month |-> 0]
Num(v) == [txt |-> "num", n |-> v]
Empty == [txt |-> "empty", n |-> 0]
Colon == [txt |-> ":", n |-> 0]

period_parses(p) == p.m \in 1..12
to_datetime(p) == IF p = NoPeriod THEN NaT ELSE [year |-> p.y, month |-> p.m]
to_numeric(tok) == IF tok.txt = "num" THEN Some(tok.n) ELSE NaN

load_ok(csv) ==
    \A i \in DOMAIN csv :
        csv[i].TIME_PERIOD = NoPeriod \/ period_parses(csv[i].TIME_PERIOD)
load_data(csv) ==
    [i \in DOMAIN csv |->
        [geo |-> csv[i].geo,
         TIME_PERIOD |-> to_datetime(csv[i].TIME_PERIOD),
         OBS_VALUE |-> to_numeric(csv[i].OBS_VALUE),
         c_resid |-> csv[i].c_resid]]

(***************************************************************************)
(* clean_data                                                              *)
(***************************************************************************)
CompleteYearRows == 12

notna(r) == ~isna(r.OBS_VALUE)
nonneg(r) == r.OBS_VALUE[1] >= 0
dropna(df) == SelectSeq(df, notna)
drop_negative(df) == SelectSeq(df, nonneg)
with_year_month(df) ==
    [i \in DOMAIN df |->
        [geo |-> df[i].geo,
         TIME_PERIOD |-> df[i].TIME_PERIOD,
         OBS_VALUE |-> df[i].OBS_VALUE,
         c_resid |-> df[i].c_resid,
         year |-> df[i].TIME_PERIOD.year,
         month |-> df[i].TIME_PERIOD.month]]

survivors(df) == with_year_month(drop_negative(dropna(df)))

year_counts(df, y) == Cardinality({i \in DOMAIN df : df[i].year = y})
(* A variant that asks for 12 rows of one entity in the year. *)
complete_years_per_entity(df) ==
    {y \in {df[i].year : i \in DOMAIN df} \ {NaT.year} :
        \E i \in DOMAIN df :
            Cardinality({j \in DOMAIN df : df[j].year = y /\ df[j].geo = df[i].geo})
                >= CompleteYearRows}

complete_years(df) ==
    {y \in {df[i].year : i \in DOMAIN df} \ {NaT.year} :
        year_counts(df, y) >= CompleteYearRows}

(* A variant without the fallback: the year restriction is always applied. *)
clean_data_no_fallback(df) ==
    LET s == survivors(df)
        cy == complete_years(s)
        in_complete(r) == r.year \in cy
    IN SelectSeq(s, in_complete)

(* A variant that never applies the year restriction. *)
clean_data_unrestricted(df) == survivors(df)

(* A variant that counts a year's rows before the invalid values go. *)
clean_data_raw_counts(df) ==
    LET s == survivors(df)
        cy == complete_years(with_year_month(df))
        in_complete(r) == r.year \in cy
    IN IF cy # {} THEN SelectSeq(s, in_complete) ELSE s

clean_data(df) ==
    LET s == survivors(df)
        cy == complete_years(s)
        in_complete(r) == r.year \in cy
    IN IF cy # {} THEN SelectSeq(s, in_complete) ELSE s


(***************************************************************************)
(* analyze_seasonality: one row per (geo, month, c_resid) group that has   *)
(* rows, in ascending key order, with the group's mean and its sample      *)
(* standard deviation.  std_nights holds the square of the deviation (the  *)
(* sample variance) and is NaN for a group of one row, as pandas' std is.  *)
(***************************************************************************)
group_values(df, g, m, c) ==
    LET in_group(r) == r.geo = g /\ r.month = m /\ r.c_resid = c
        rows == SelectSeq(df, in_group)
    IN [i \in DOMAIN rows |-> rows[i].OBS_VALUE[1]]

(* A variant that takes the latest value of the group for its mean. *)
mean_last(vals) == Frac(vals[Len(vals)], 1)

mean(vals) == Frac(SumSeq(vals), Len(vals))

std(vals) ==
    LET n == Len(vals)
        s == SumSeq(vals)
        sq == SumSeq([i \in DOMAIN vals |-> vals[i] * vals[i]])
    IN IF n < 2 THEN NaN ELSE Some(Frac(n * sq - s * s, n * (n - 1)))

(* The k-th key of geos x 1..12 x cats in ascending (geo, month, c_resid). *)
group_key(k, geos, cats) ==
    LET nc == Len(cats)
        q == (k - 1) \div nc
    IN [geo |-> geos[(q \div 12) + 1],
        month |-> (q % 12) + 1,
        c_resid |-> cats[((k - 1) % nc) + 1]]

all_group_keys(geos, cats) ==
    [k \in 1..(Len(geos) * 12 * Len(cats)) |-> group_key(k, geos, cats)]

analyze_seasonality(df) ==
    LET present(key) ==
            \E i \in DOMAIN df : /\ df[i].geo = key.geo
                                  /\ df[i].month = key.month
                                  /\ df[i].c_resid = key.c_resid
        keys == SelectSeq(all_group_keys(Geos, Cats), present)
    IN [k \in DOMAIN keys |->
          LET vals == group_values(df, keys[k].geo, keys[k].month, keys[k].c_resid)
          IN [geo |-> keys[k].geo,
              month |-> keys[k].month,
              c_resid |-> keys[k].c_resid,
              avg_nights |-> mean(vals),
              std_nights |-> std(vals)]]

(***************************************************************************)
(* The seasonality index of the report and of the seasonality plot: the    *)
(* pivot of avg_nights by month, one row per (geo, c_resid) in ascending   *)
(* order; max and min skip the months without data.                        *)
(***************************************************************************)
FracMax(S) == CHOOSE x \in S : \A y \in S : FracLeq(y, x)
FracMin(S) == CHOOSE x \in S : \A y \in S : FracLeq(x, y)

pair_means(seas, g, c) ==
    {seas[i].avg_nights : i \in {j \in DOMAIN seas : seas[j].geo = g /\ seas[j].c_resid = c}}

(* A variant in which a month without data counts as a mean of zero. *)
min_vals_missing_as_zero(seas, g, c) ==
    IF Cardinality({seas[i].month : i \in {j \in DOMAIN seas :
                        seas[j].geo = g /\ seas[j].c_resid = c}})
         < Cardinality({seas[i].month : i \in DOMAIN seas})
    THEN [num |-> 0, den |-> 1]
    ELSE FracMin(pair_means(seas, g, c))

max_vals(seas, g, c) == FracMax(pair_means(seas, g, c))
min_vals(seas, g, c) == FracMin(pair_means(seas, g, c))

replace_zero(x) == IF x = Zero THEN NaN ELSE Some(x)
divide(x, y) == IF isna(y) THEN NaN ELSE Some(FracDiv(x, y[1]))
fillna(x, d) == IF isna(x) THEN d ELSE x[1]

(* A variant that gives 0 for a zero minimum, as the viewer does. *)
seasonality_index_zero(seas, g, c) ==
    fillna(divide(max_vals(seas, g, c), replace_zero(min_vals(seas, g, c))), Zero)

seasonality_index(seas, g, c) ==
    fillna(divide(max_vals(seas, g, c), replace_zero(min_vals(seas, g, c))), One)

pair_key(k, geos, cats) ==
    [geo |-> geos[((k - 1) \div Len(cats)) + 1],
     c_resid |-> cats[((k - 1) % Len(cats)) + 1]]

all_pair_keys(geos, cats) ==
    [k \in 1..(Len(geos) * Len(cats)) |-> pair_key(k, geos, cats)]

seasonality_wide(seas) ==
    LET present(key) ==
            \E i \in DOMAIN seas : seas[i].geo = key.geo /\ seas[i].c_resid = key.c_resid
        keys == SelectSeq(all_pair_keys(Geos, Cats), present)
    IN [k \in DOMAIN keys |->
          [geo |-> keys[k].geo,
           c_resid |-> keys[k].c_resid,
           seasonality_index |-> seasonality_index(seas, keys[k].geo, keys[k].c_resid)]]

(***************************************************************************)
(* identify_top_destinations                                               *)
(***************************************************************************)
(* df['c_resid'].unique(): the categories in order of first appearance.    *)
unique(s) ==
    LET first(i) == \A j \in 1..(i - 1) : s[j] # s[i]
        firsts == SelectSeq([i \in DOMAIN s |-> i], first)
    IN [k \in DOMAIN firsts |-> s[firsts[k]]]

column(df, name) == [i \in DOMAIN df |-> df[i][name]]

(* groupby(['geo', 'c_resid']).sum().reset_index(): one row per pair that  *)
(* has rows, in ascending key order, labelled 0, 1, ... in that order.     *)
country_totals(df) ==
    LET present(key) ==
            \E i \in DOMAIN df : df[i].geo = key.geo /\ df[i].c_resid = key.c_resid
        keys == SelectSeq(all_pair_keys(Geos, Cats), present)
        total(key) ==
            LET in_group(r) == r.geo = key.geo /\ r.c_resid = key.c_resid
                rows == SelectSeq(df, in_group)
            IN SumSeq([i \in DOMAIN rows |-> rows[i].OBS_VALUE[1]])
    IN [k \in DOMAIN keys |->
          [index |-> k - 1,
           geo |-> keys[k].geo,
           c_resid |-> keys[k].c_resid,
           OBS_VALUE |-> total(keys[k])]]

(* A variant that leaves the rows in key order. *)
sort_values_none(rows) == {rows}

(* sort_values('OBS_VALUE', ascending=False) with pandas' default          *)
(* kind='quicksort', which is not a stable sort: the result is descending, *)
(* and the order of rows of equal value is whatever numpy's sort of the    *)
(* build leaves (insertion order for a short array under the scalar        *)
(* introsort, another order beyond 16 rows or under the SIMD sorts).  The  *)
(* operator is the set of the results the call can return.                 *)
sort_values_desc(rows) ==
    LET n == Len(rows)
        orders == {p \in [1..n -> 1..n] :
                     /\ \A i, j \in 1..n : i # j => p[i] # p[j]
                     /\ \A k \in 1..(n - 1) :
                           rows[p[k]].OBS_VALUE >= rows[p[k + 1]].OBS_VALUE}
    IN {[k \in 1..n |-> rows[p[k]]] : p \in orders}

(* A variant that never truncates. *)
head_all(rows, n) == rows

(* DataFrame.head(n): the first n rows, or all but the last -n rows.       *)
head(rows, n) ==
    LET len == Len(rows)
        keep == IF n >= 0 THEN (IF n < len THEN n ELSE len)
                ELSE (IF len + n > 0 THEN len + n ELSE 0)
    IN SubSeq(rows, 1, keep)

(* The rankings the loop body can give one category. *)
top_for_type(df, tourist_type, top_n) ==
    LET of_type(r) == r.c_resid = tourist_type
        type_data == SelectSeq(country_totals(df), of_type)
    IN {head(sorted, top_n) : sorted \in sort_values_desc(type_data)}

(* The results the call can return: one entry per category, in order of    *)
(* first appearance.                                                       *)
identify_top_destinations(df, top_n) ==
    LET types == unique(column(df, "c_resid"))
        entries(k) ==
            {[c_resid |-> types[k], data |-> d] : d \in top_for_type(df, types[k], top_n)}
    IN {top \in [DOMAIN types -> UNION {entries(k) : k \in DOMAIN types}] :
          \A k \in DOMAIN types : top[k] \in entries(k)}

(***************************************************************************)
(* generate_analytical_commentary: the index table, its five largest and   *)
(* five smallest rows, and per category the first five ranked rows, each   *)
(* printed with the ordinal idx + 1.                                       *)
(***************************************************************************)
ReportRows == 5

nlargest(n, rows) ==
    LET len == Len(rows)
        before(j, i) ==
            \/ FracLess(rows[i].seasonality_index, rows[j].seasonality_index)
            \/ rows[j].seasonality_index = rows[i].seasonality_index /\ j < i
        place(i) == 1 + Cardinality({j \in 1..len : before(j, i)})
    IN head([k \in 1..len |-> rows[CHOOSE i \in 1..len : place(i) = k]], n)

nsmallest(n, rows) ==
    LET len == Len(rows)
        before(j, i) ==
            \/ FracLess(rows[j].seasonality_index, rows[i].seasonality_index)
            \/ rows[j].seasonality_index = rows[i].seasonality_index /\ j < i
        place(i) == 1 + Cardinality({j \in 1..len : before(j, i)})
    IN head([k \in 1..len |-> rows[CHOOSE i \in 1..len : place(i) = k]], n)

top_lines(top) ==
    [k \in DOMAIN top |->
       LET listed == head(top[k].data, ReportRows)
       IN [c_resid |-> top[k].c_resid,
           lines |-> [i \in DOMAIN listed |->
                        [ordinal |-> listed[i].index + 1,
                         geo |-> listed[i].geo,
                         OBS_VALUE |-> listed[i].OBS_VALUE]]]]

generate_analytical_commentary(seas, top) ==
    LET wide == seasonality_wide(seas)
    IN [seasonality_wide |-> wide,
        top_seasonal |-> nlargest(ReportRows, wide),
        low_seasonal |-> nsmallest(ReportRows, wide),
        top_destinations |-> top_lines(top)]

(***************************************************************************)
(* The viewer's display_statistics for one country: per category of the    *)
(* country, in ascending order, the months of the highest and lowest mean  *)
(* and the seasonality index shown.                                        *)
(***************************************************************************)
(* A variant that takes the last of the rows that hold the maximum. *)
idxmax_last(rows) ==
    CHOOSE i \in DOMAIN rows :
        /\ \A j \in DOMAIN rows : FracLeq(rows[j].avg_nights, rows[i].avg_nights)
        /\ \A j \in (i + 1)..Len(rows) : rows[j].avg_nights # rows[i].avg_nights

idxmax(rows) ==
    CHOOSE i \in DOMAIN rows :
        /\ \A j \in DOMAIN rows : FracLeq(rows[j].avg_nights, rows[i].avg_nights)
        /\ \A j \in 1..(i - 1) : rows[j].avg_nights # rows[i].avg_nights

idxmin(rows) ==
    CHOOSE i \in DOMAIN rows :
        /\ \A j \in DOMAIN rows : FracLeq(rows[i].avg_nights, rows[j].avg_nights)
        /\ \A j \in 1..(i - 1) : rows[j].avg_nights # rows[i].avg_nights

viewer_index(max_avg, min_avg) ==
    IF FracLess(Zero, min_avg) THEN FracDiv(max_avg, min_avg) ELSE Zero

sorted_present(all, S) == LET in_S(x) == x \in S IN SelectSeq(all, in_S)

display_statistics(df, seas, country) ==
    LET of_country(r) == r.geo = country
        country_data == SelectSeq(df, of_country)
        seasonality_country == SelectSeq(seas, of_country)
        types == sorted_present(Cats, Range(column(country_data, "c_resid")))
        block(t) ==
            LET of_type(r) == r.c_resid = t
                type_seasonality == SelectSeq(seasonality_country, of_type)
                max_month_data == type_seasonality[idxmax(type_seasonality)]
                min_month_data == type_seasonality[idxmin(type_seasonality)]
            IN [c_resid |-> t,
                seasonality |->
                    IF Len(type_seasonality) > 0
                    THEN Some([max_month |-> max_month_data.month,
                               min_month |-> min_month_data.month,
                               seasonality_index |->
                                   viewer_index(max_month_data.avg_nights,
                                                min_month_data.avg_nights)])
                    ELSE NaN]
    IN [country |-> country, types |-> [k \in DOMAIN types |-> block(types[k])]]

(***************************************************************************)
(* The explored input files.  A file is the concatenation of four blocks,  *)
(* one per slot (geo, c_resid, year); a block holds the first `months`     *)
(* months of its year with the values of its pattern.                      *)
(***************************************************************************)
Slots ==
    <<[geo |-> "PL", c_resid |-> "Foreign country", y |-> 2020],
      [geo |-> "AT", c_resid |-> "Foreign country", y |-> 2020],
      [geo |-> "PL", c_resid |-> "Domestic country", y |-> 2020],
      [geo |-> "PL", c_resid |-> "Foreign country", y |-> 2021]>>

Shape(months, pat, v) == [months |-> months, pat |-> pat, v |-> v]
NoRows == Shape(0, "flat", 0)

cell(sh, m) ==
    CASE sh.pat = "flat" -> Num(sh.v)
      [] sh.pat = "peak" -> IF m = 2 THEN Num(MaxVal) ELSE Num(1)
      [] sh.pat = "dip" -> IF m = 1 THEN Num(0) ELSE Num(MaxVal)
      [] sh.pat = "bad" -> IF m = 1 THEN Empty
                           ELSE IF m = 2 THEN Num(0 - 1)
                           ELSE IF m = 3 THEN Colon ELSE Num(1)
      [] OTHER -> Num(1)

block_rows(slot, sh) ==
    [m \in 1..sh.months |->
        [geo |-> slot.geo,
         TIME_PERIOD |-> IF sh.pat = "noperiod" THEN NoPeriod
                         ELSE [y |-> slot.y,
                               m |-> IF sh.pat = "badperiod" THEN 13 ELSE m],
         OBS_VALUE |-> cell(sh, m),
         c_resid |-> slot.c_resid]]

FullShapes ==
    {NoRows}
    \cup {Shape(n, "flat", v) : n \in {4, 12}, v \in 0..MaxVal}
    \cup {Shape(n, p, 0) : n \in {4, 12}, p \in {"peak", "dip", "bad"}}

SlotShapes ==
    <<FullShapes,
      FullShapes,
      {NoRows, Shape(4, "flat", 1), Shape(12, "dip", 0), Shape(1, "badperiod", 0),
       Shape(1, "noperiod", 0)},
      {NoRows, Shape(4, "flat", 1), Shape(4, "bad", 0), Shape(12, "flat", MaxVal)}>>

Configs == {cfg \in [1..4 -> FullShapes \cup SlotShapes[3] \cup SlotShapes[4]] :
              \A k \in 1..4 : cfg[k] \in SlotShapes[k]}

(* The files the viewer is started on: a part of Configs. *)
ViewerShapes ==
    <<{NoRows, Shape(4, "flat", 0), Shape(4, "peak", 0), Shape(12, "dip", 0)},
      {NoRows, Shape(4, "flat", 0), Shape(4, "peak", 0), Shape(12, "dip", 0)},
      {NoRows, Shape(4, "flat", 1), Shape(1, "noperiod", 0)},
      {NoRows, Shape(4, "bad", 0)}>>

ViewerConfigs == {cfg \in Configs : \A k \in 1..4 : cfg[k] \in ViewerShapes[k]}

file_of(cfg) ==
    block_rows(Slots[1], cfg[1]) \o block_rows(Slots[2], cfg[2])
      \o block_rows(Slots[3], cfg[3]) \o block_rows(Slots[4], cfg[4])

(***************************************************************************)
(* The files a user may put in place of the input file while the viewer    *)
(* runs.  A file that lacks a column is written with NoColumn in that      *)
(* field of every row; such a file has rows that survive the cleaning.     *)
(***************************************************************************)
NoColumn == "(no column)"
without_column(rows, col) == [i \in DOMAIN rows |-> [rows[i] EXCEPT ![col] = NoColumn]]
has_column(frame, col) == \A i \in DOMAIN frame : frame[i][col] # NoColumn

ReloadFiles ==
    {file_of(<<NoRows, Shape(12, "flat", 1), NoRows, NoRows>>),
     file_of(<<NoRows, NoRows, Shape(1, "badperiod", 0), NoRows>>),
     without_column(file_of(<<Shape(4, "flat", 1), NoRows, NoRows, NoRows>>), "c_resid"),
     without_column(file_of(<<Shape(4, "flat", 1), NoRows, NoRows, NoRows>>), "geo")}

TopNs == (0 - 1)..MaxTopN

(***************************************************************************)
(* State.                                                                  *)
(***************************************************************************)
VARIABLES
    prog,             \* which program runs: "batch" (main) or "app" (viewer)
    csv,              \* the rows of the input file
    file_exists,      \* whether the input file is on disk
    pc,               \* batch: the stage main() has completed
    df,               \* batch: load_data's frame
    df_clean,         \* batch: clean_data's frame
    seasonality,      \* batch: analyze_seasonality's frame
    top_n,            \* batch: the count passed to identify_top_destinations
    top_destinations, \* batch: identify_top_destinations' result
    commentary,       \* batch: the report's tables
    app_df_clean,     \* viewer: self.df_clean (NaN is None)
    app_seasonality,  \* viewer: self.seasonality_df (NaN is None)
    countries_list,   \* viewer: self.countries_list
    country_var,      \* viewer: the selected country ("" is none)
    stats,            \* viewer: the statistics panel (NaN is empty)
    status,           \* viewer: the status bar
    stack             \* viewer: the handlers suspended in root.update()

batch_vars == <<pc, df, df_clean, seasonality, top_n, top_destinations, commentary>>
app_vars ==
    <<app_df_clean, app_seasonality, countries_list, country_var, stats, status, stack>>
vars == <<prog, csv, file_exists, batch_vars, app_vars>>

Init ==
    /\ \/ prog = "batch" /\ csv \in {file_of(cfg) : cfg \in Configs}
       \/ prog = "app" /\ csv \in {file_of(cfg) : cfg \in ViewerConfigs}
    /\ file_exists = TRUE
    /\ pc = "start"
    /\ df = <<>>
    /\ df_clean = <<>>
    /\ seasonality = <<>>
    /\ top_n = 0
    /\ top_destinations = <<>>
    /\ commentary = NaN
    /\ app_df_clean = NaN
    /\ app_seasonality = NaN
    /\ countries_list = <<>>
    /\ country_var = ""
    /\ stats = NaN
    /\ status = "Gotowy"
    /\ stack = <<>>

(***************************************************************************)
(* The batch program main(), one action per pipeline call.                 *)
(***************************************************************************)
Load ==
    /\ prog = "batch" /\ pc = "start"
    /\ load_ok(csv)
    /\ df' = load_data(csv)
    /\ pc' = "loaded"
    /\ UNCHANGED <<prog, csv, file_exists, df_clean, seasonality, top_n, top_destinations,
                   commentary, app_vars>>

LoadFails ==
    /\ prog = "batch" /\ pc = "start"
    /\ ~load_ok(csv)
    /\ pc' = "failed"
    /\ UNCHANGED <<prog, csv, file_exists, df, df_clean, seasonality, top_n, top_destinations,
                   commentary, app_vars>>

Clean ==
    /\ prog = "batch" /\ pc = "loaded"
    /\ df_clean' = clean_data(df)
    /\ pc' = "cleaned"
    /\ UNCHANGED <<prog, csv, file_exists, df, seasonality, top_n, top_destinations,
                   commentary, app_vars>>

Analyze ==
    /\ prog = "batch" /\ pc = "cleaned"
    /\ seasonality' = analyze_seasonality(df_clean)
    /\ pc' = "analyzed"
    /\ UNCHANGED <<prog, csv, file_exists, df, df_clean, top_n, top_destinations,
                   commentary, app_vars>>

(* identify_top_destinations(df_clean, top_n); main() passes 10, the       *)
(* function takes any integer.                                             *)
Rank ==
    /\ prog = "batch" /\ pc = "analyzed"
    /\ \E n \in TopNs :
          /\ top_n' = n
          /\ top_destinations' \in identify_top_destinations(df_clean, n)
    /\ pc' = "ranked"
    /\ UNCHANGED <<prog, csv, file_exists, df, df_clean, seasonality, commentary, app_vars>>

(* The three plots of main() run between the ranking and the report.       *)
(* plot_top_destinations asks for one subplot column per category and      *)
(* raises for none; plot_temporal_trends takes the first country of the    *)
(* totals and raises when there is none.                                   *)
plots_raise(top, d) == top = <<>> \/ d = <<>>

Plots ==
    /\ prog = "batch" /\ pc = "ranked"
    /\ ~plots_raise(top_destinations, df_clean)
    /\ pc' = "plotted"
    /\ UNCHANGED <<prog, csv, file_exists, df, df_clean, seasonality, top_n,
                   top_destinations, commentary, app_vars>>

PlotsFail ==
    /\ prog = "batch" /\ pc = "ranked"
    /\ plots_raise(top_destinations, df_clean)
    /\ pc' = "plots failed"
    /\ UNCHANGED <<prog, csv, file_exists, df, df_clean, seasonality, top_n,
                   top_destinations, commentary, app_vars>>

Commentary ==
    /\ prog = "batch" /\ pc = "plotted"
    /\ commentary' = Some(generate_analytical_commentary(seasonality, top_destinations))
    /\ pc' = "done"
    /\ UNCHANGED <<prog, csv, file_exists, df, df_clean, seasonality, top_n, top_destinations,
                   app_vars>>

(***************************************************************************)
(* The viewer.  load_data_on_startup runs at start and on the reload       *)
(* button, on_country_selected on a selection in the combobox and at the   *)
(* end of a successful load.  Each handler writes the status and then      *)
(* calls root.update(), which runs the event loop: a click or a selection  *)
(* made there is handled before update() returns.  stack holds the         *)
(* handlers waiting in update(), the innermost last: LoadFrame is          *)
(* load_data_on_startup at its update(), SelectFrame(c) is                 *)
(* on_country_selected at its update() with selected_country = c (called   *)
(* from the combobox or from load_data_on_startup, which has nothing left  *)
(* to do when the call returns).  On an error a handler opens              *)
(* messagebox.showerror and writes the status when the user has closed     *)
(* it; the dialog is modal (DialogFrame): while it is open no handler of   *)
(* the window starts, and the file may change.                             *)
(***************************************************************************)
LoadFrame ==
    [handler |-> "load_data_on_startup", at |-> "update", selected_country |-> ""]
SelectFrame(c) ==
    [handler |-> "on_country_selected", at |-> "update", selected_country |-> c]
DialogFrame(h) == [handler |-> h, at |-> "showerror", selected_country |-> ""]
Top(st) == st[Len(st)]
Pop(st) == SubSeq(st, 1, Len(st) - 1)
Resumes(h) == stack # <<>> /\ Top(stack).handler = h /\ Top(stack).at = "update"
InDialog == stack # <<>> /\ Top(stack).at = "showerror"

sorted_countries(d) == sorted_present(Geos, Range(column(d, "geo")))

(* load_data raises on a bad period; clean_data raises at its              *)
(* groupby(['geo', 'year']) when the geo column is missing;                *)
(* analyze_seasonality raises at its groupby when c_resid is missing.      *)
clean_raises(d) == ~has_column(d, "geo")
analyze_raises(d) == ~has_column(d, "c_resid")
(* display_statistics raises at its groupby(['TIME_PERIOD', 'c_resid'])    *)
(* and at min() of the years of a country that has no rows.                *)
display_raises(d, country) ==
    \/ ~has_column(d, "c_resid")
    \/ \A i \in DOMAIN d : d[i].geo # country

(* The start of the handler: the status, then update(). *)
load_data_on_startup ==
    /\ prog = "app"
    /\ ~InDialog
    /\ Len(stack) < MaxDepth
    /\ status' = "Wczytywanie danych..."
    /\ stack' = Append(stack, LoadFrame)
    /\ UNCHANGED <<prog, csv, file_exists, batch_vars, app_df_clean, app_seasonality,
                   countries_list, country_var, stats>>

(* update() has returned and every call succeeds: the snapshot is          *)
(* replaced; with a country to show, the first is selected and             *)
(* on_country_selected runs up to its own update().                        *)
load_data_on_startup_run ==
    /\ prog = "app"
    /\ Resumes("load_data_on_startup")
    /\ file_exists
    /\ load_ok(csv) /\ ~clean_raises(csv) /\ ~analyze_raises(csv)
    /\ LET d == clean_data(load_data(csv))
           cl == sorted_countries(d)
       IN /\ app_df_clean' = Some(d)
          /\ app_seasonality' = Some(analyze_seasonality(d))
          /\ countries_list' = cl
          /\ IF cl # <<>>
             THEN /\ country_var' = cl[1]
                  /\ status' = "Analizowanie danych"
                  /\ stack' = Append(Pop(stack), SelectFrame(cl[1]))
             ELSE /\ status' = "Wczytano dane"
                  /\ stack' = Pop(stack)
                  /\ UNCHANGED country_var
    /\ UNCHANGED <<prog, csv, file_exists, batch_vars, stats>>

(* update() has returned and the file is missing, or load_data or          *)
(* clean_data raises: nothing has been assigned yet; the error dialog      *)
(* opens.                                                                  *)
load_data_on_startup_error ==
    /\ prog = "app"
    /\ Resumes("load_data_on_startup")
    /\ ~file_exists \/ ~load_ok(csv) \/ clean_raises(csv)
    /\ stack' = Append(Pop(stack), DialogFrame("load_data_on_startup"))
    /\ UNCHANGED <<prog, csv, file_exists, batch_vars, app_df_clean, app_seasonality,
                   countries_list, country_var, stats, status>>

(* update() has returned and analyze_seasonality raises: self.df_clean has *)
(* been assigned already; the error dialog opens.                          *)
load_data_on_startup_analyze_error ==
    /\ prog = "app"
    /\ Resumes("load_data_on_startup")
    /\ file_exists
    /\ load_ok(csv) /\ ~clean_raises(csv) /\ analyze_raises(csv)
    /\ app_df_clean' = Some(clean_data(load_data(csv)))
    /\ stack' = Append(Pop(stack), DialogFrame("load_data_on_startup"))
    /\ UNCHANGED <<prog, csv, file_exists, batch_vars, app_seasonality,
                   countries_list, country_var, stats, status>>

(* The user has closed the error dialog of the load: the status, return.   *)
load_data_on_startup_error_closed ==
    /\ prog = "app"
    /\ InDialog /\ Top(stack).handler = "load_data_on_startup"
    /\ status' = "Blad wczytywania danych"
    /\ stack' = Pop(stack)
    /\ UNCHANGED <<prog, csv, file_exists, batch_vars, app_df_clean, app_seasonality,
                   countries_list, country_var, stats>>

(* The user picks a country of the combobox, which sets country_var, and   *)
(* the handler runs up to its update().                                    *)
on_country_selected ==
    /\ prog = "app"
    /\ ~InDialog
    /\ Len(stack) < MaxDepth
    /\ \E c \in Range(countries_list) :
          /\ country_var' = c
          /\ IF isna(app_df_clean)
             THEN UNCHANGED <<status, stack>>
             ELSE /\ status' = "Analizowanie danych"
                  /\ stack' = Append(stack, SelectFrame(c))
    /\ UNCHANGED <<prog, csv, file_exists, batch_vars, app_df_clean, app_seasonality,
                   countries_list, stats>>

(* update() has returned: the statistics of selected_country are computed  *)
(* on the snapshot held now.  display_statistics clears the panel first;   *)
(* when it raises, the panel stays empty and the error dialog opens.       *)
on_country_selected_run ==
    /\ prog = "app"
    /\ Resumes("on_country_selected")
    /\ LET c == Top(stack).selected_country
       IN IF display_raises(app_df_clean[1], c)
          THEN /\ stats' = NaN
               /\ stack' = Append(Pop(stack), DialogFrame("on_country_selected"))
               /\ UNCHANGED status
          ELSE /\ stats' = Some(display_statistics(app_df_clean[1],
                                                   app_seasonality[1], c))
               /\ status' = "Wyswietlono wyniki"
               /\ stack' = Pop(stack)
    /\ UNCHANGED <<prog, csv, file_exists, batch_vars, app_df_clean, app_seasonality,
                   countries_list, country_var>>

(* The user has closed the error dialog of the display: the status, return. *)
on_country_selected_error_closed ==
    /\ prog = "app"
    /\ InDialog /\ Top(stack).handler = "on_country_selected"
    /\ status' = "Blad analizy"
    /\ stack' = Pop(stack)
    /\ UNCHANGED <<prog, csv, file_exists, batch_vars, app_df_clean, app_seasonality,
                   countries_list, country_var, stats>>

(* The environment of the viewer: the input file is replaced or removed.   *)
FileReplaced ==
    /\ prog = "app"
    /\ csv' \in ReloadFiles \ {csv}
    /\ file_exists' = TRUE
    /\ UNCHANGED <<prog, batch_vars, app_vars>>

FileRemoved ==
    /\ prog = "app"
    /\ file_exists
    /\ csv' = <<>>
    /\ file_exists' = FALSE
    /\ UNCHANGED <<prog, batch_vars, app_vars>>

Next ==
    \/ Load
    \/ LoadFails
    \/ Clean
    \/ Analyze
    \/ Rank
    \/ Plots
    \/ PlotsFail
    \/ Commentary
    \/ load_data_on_startup
    \/ load_data_on_startup_run
    \/ load_data_on_startup_error
    \/ load_data_on_startup_analyze_error
    \/ load_data_on_startup_error_closed
    \/ on_country_selected
    \/ on_country_selected_run
    \/ on_country_selected_error_closed
    \/ FileReplaced
    \/ FileRemoved

Spec == Init /\ [][Next]_vars

(***************************************************************************)
(* Vocabulary of the properties, stated on the frames themselves.          *)
(***************************************************************************)
Cleaned ==
    /\ prog = "batch"
    /\ pc \in {"cleaned", "analyzed", "ranked", "plotted", "plots failed", "done"}
Ranked == prog = "batch" /\ pc \in {"ranked", "plotted", "plots failed", "done"}
Reported == prog = "batch" /\ pc = "done"

Valid(r) == r.OBS_VALUE # NaN /\ r.OBS_VALUE[1] >= 0
YearOf(r) == r.TIME_PERIOD.year
ValidRowsOfYear(d, y) == Cardinality({i \in DOMAIN d : Valid(d[i]) /\ YearOf(d[i]) = y})
Qualifies(d, y) == y # NaT.year /\ ValidRowsOfYear(d, y) >= 12
SomeYearQualifies(d) == \E i \in DOMAIN d : Qualifies(d, YearOf(d[i]))
ValidRows(d) == SelectSeq(d, Valid)
RawColumns(d) ==
    [i \in DOMAIN d |->
        [geo |-> d[i].geo, TIME_PERIOD |-> d[i].TIME_PERIOD,
         OBS_VALUE |-> d[i].OBS_VALUE, c_resid |-> d[i].c_resid]]
Periods(d) == {d[i].TIME_PERIOD : i \in DOMAIN d}

(* C1: every row of the cleaned frame has a present value >= 0 and the     *)
(* year and month (1..12) of its period.                                   *)
C1_CleanRowsValid ==
    Cleaned =>
        \A i \in DOMAIN df_clean :
            /\ df_clean[i].OBS_VALUE # NaN
            /\ df_clean[i].OBS_VALUE[1] >= 0
            /\ df_clean[i].year = df_clean[i].TIME_PERIOD.year
            /\ df_clean[i].month = df_clean[i].TIME_PERIOD.month
            /\ df_clean[i].month \in 1..12

(* C2: when some year has >= 12 valid rows in the whole frame, the cleaned *)
(* frame is exactly the valid rows of the years that have, in row order.   *)
C2_CompleteYearsKept ==
    (Cleaned /\ SomeYearQualifies(df)) =>
        LET kept(r) == Valid(r) /\ Qualifies(df, YearOf(r))
        IN RawColumns(df_clean) = SelectSeq(df, kept)

C2_Witness ==
    /\ Cleaned
    /\ SomeYearQualifies(df)
    /\ \E i \in DOMAIN df : Valid(df[i]) /\ ~Qualifies(df, YearOf(df[i]))
    /\ \E i \in DOMAIN df_clean :
          Cardinality({j \in DOMAIN df_clean :
                          /\ df_clean[j].geo = df_clean[i].geo
                          /\ df_clean[j].year = df_clean[i].year}) < 12

(* C3: when no year has >= 12 valid rows, the cleaned frame is every valid *)
(* row of the input.                                                       *)
C3_FallbackKeepsAll ==
    (Cleaned /\ ~SomeYearQualifies(df)) => RawColumns(df_clean) = ValidRows(df)

C3_Witness ==
    /\ Cleaned
    /\ ~SomeYearQualifies(df)
    /\ df_clean # <<>>
    /\ Len(df_clean) < Len(df)
    /\ Cardinality({YearOf(df_clean[i]) : i \in DOMAIN df_clean}) = 2

(* C4: an input with fewer than 12 distinct periods takes the fallback:    *)
(* every valid row is retained.                                            *)
C4_FewPeriodsFallback ==
    (Cleaned /\ Cardinality(Periods(df)) < 12) => RawColumns(df_clean) = ValidRows(df)

(* C5 as stated: every row of the cleaned frame belongs to a year with at  *)
(* least 12 records, for every input.                                      *)
C5_Original ==
    Cleaned =>
        \A i \in DOMAIN df_clean :
            Cardinality({j \in DOMAIN df_clean : df_clean[j].year = df_clean[i].year}) >= 12

(* C5 amended: when some year has >= 12 valid rows, every row of the       *)
(* cleaned frame belongs to a year with at least 12 records in it.         *)
C5_Amended ==
    (Cleaned /\ SomeYearQualifies(df)) =>
        \A i \in DOMAIN df_clean :
            Cardinality({j \in DOMAIN df_clean : df_clean[j].year = df_clean[i].year}) >= 12

C5_Witness ==
    /\ Cleaned
    /\ SomeYearQualifies(df)
    /\ Cardinality({df_clean[i].year : i \in DOMAIN df_clean}) = 1
    /\ Cardinality({YearOf(df[i]) : i \in {j \in DOMAIN df : Valid(df[j])}}) = 2

(***************************************************************************)
(* Monthly means of a cleaned frame, as sums and counts.                   *)
(***************************************************************************)
PairsOf(d) == {<<d[i].geo, d[i].c_resid>> : i \in DOMAIN d}

(* Per month 1..12, the number and the sum of the pair's values. *)
MonthStats(d, g, c) ==
    LET in_pair(r) == r.geo = g /\ r.c_resid = c
        rows == SelectSeq(d, in_pair)
        stat(m) ==
            LET in_month(r) == r.month = m
                mrows == SelectSeq(rows, in_month)
            IN [cnt |-> Len(mrows),
                sum |-> SumSeq([i \in DOMAIN mrows |-> mrows[i].OBS_VALUE[1]])]
    IN <<stat(1), stat(2), stat(3), stat(4), stat(5), stat(6),
         stat(7), stat(8), stat(9), stat(10), stat(11), stat(12)>>
WithData(st) == {m \in 1..12 : st[m].cnt > 0}
MeanLeq(st, m1, m2) == st[m1].sum * st[m2].cnt <= st[m2].sum * st[m1].cnt
MinMonths(st) == {m \in WithData(st) : \A k \in WithData(st) : MeanLeq(st, m, k)}
MaxMonths(st) == {m \in WithData(st) : \A k \in WithData(st) : MeanLeq(st, k, m)}
MinMeanIsZero(st) == \E m \in MinMonths(st) : st[m].sum = 0
MaxMeanIsPositive(st) == \E m \in MaxMonths(st) : st[m].sum > 0

ReportIndexRows(g, c) ==
    LET wide == commentary[1].seasonality_wide
    IN {i \in DOMAIN wide : wide[i].geo = g /\ wide[i].c_resid = c}
ReportIndex(i) == commentary[1].seasonality_wide[i].seasonality_index

(* C6: in the report, a pair whose minimum monthly mean is 0 has the index *)
(* 1.0, and every index is a finite number.                                *)
C6_ZeroMinGivesOne ==
    Reported =>
        /\ \A i \in DOMAIN commentary[1].seasonality_wide : ReportIndex(i).den > 0
        /\ \A p \in PairsOf(df_clean) :
              LET st == MonthStats(df_clean, p[1], p[2])
              IN MinMeanIsZero(st) =>
                  /\ Cardinality(ReportIndexRows(p[1], p[2])) = 1
                  /\ \A i \in ReportIndexRows(p[1], p[2]) :
                        ReportIndex(i).num = 1 /\ ReportIndex(i).den = 1

C6_Witness ==
    /\ Reported
    /\ \E p \in PairsOf(df_clean) :
          LET st == MonthStats(df_clean, p[1], p[2])
          IN MinMeanIsZero(st) /\ MaxMeanIsPositive(st)
    /\ \E p \in PairsOf(df_clean) :
          LET st == MonthStats(df_clean, p[1], p[2])
          IN MinMeanIsZero(st) /\ ~MaxMeanIsPositive(st)

(* C7: every seasonality index is >= 1.0, in the report and in the         *)
(* viewer's statistics.                                                    *)
C7_IndexAtLeastOne ==
    /\ Reported =>
          \A i \in DOMAIN commentary[1].seasonality_wide :
              ReportIndex(i).num >= ReportIndex(i).den
    /\ (prog = "app" /\ stats # NaN) =>
          \A k \in DOMAIN stats[1].types :
              stats[1].types[k].seasonality # NaN =>
                  stats[1].types[k].seasonality[1].seasonality_index.num
                      >= stats[1].types[k].seasonality[1].seasonality_index.den

(* C8: in the report, a pair whose minimum monthly mean is > 0 has the     *)
(* index (maximum mean) / (minimum mean), both taken over the months in    *)
(* which the pair has rows.                                                *)
C8_IndexIsMaxOverMin ==
    Reported =>
        \A p \in PairsOf(df_clean) :
            LET st == MonthStats(df_clean, p[1], p[2])
            IN (WithData(st) # {} /\ ~MinMeanIsZero(st)) =>
                /\ Cardinality(ReportIndexRows(p[1], p[2])) = 1
                /\ \A i \in ReportIndexRows(p[1], p[2]) :
                   \A mx \in MaxMonths(st) :
                   \A mn \in MinMonths(st) :
                      ReportIndex(i).num * st[mn].sum * st[mx].cnt
                        = ReportIndex(i).den * st[mx].sum * st[mn].cnt

C8_Witness ==
    /\ Reported
    /\ \E p \in PairsOf(df_clean) :
          LET st == MonthStats(df_clean, p[1], p[2])
          IN /\ ~MinMeanIsZero(st)
             /\ WithData(st) # 1..12
             /\ \E i \in ReportIndexRows(p[1], p[2]) : ReportIndex(i).num > ReportIndex(i).den
    /\ \E q \in PairsOf(df_clean) : WithData(MonthStats(df_clean, q[1], q[2])) = 1..12

(* C9: identify_top_destinations never returns a result for N <= 0.        *)
C9_NonPositiveRejected == Ranked => top_n >= 1

(* C10: for N >= 1 the total nights of each category's ranking never       *)
(* increase from one row to the next.                                      *)
C10_TotalsNonIncreasing ==
    (Ranked /\ top_n >= 1) =>
        \A k \in DOMAIN top_destinations :
            \A i, j \in DOMAIN top_destinations[k].data :
                i < j => top_destinations[k].data[i].OBS_VALUE
                            >= top_destinations[k].data[j].OBS_VALUE

C10_Witness ==
    /\ Ranked
    /\ top_n >= 2
    /\ \E k \in DOMAIN top_destinations :
          LET data == top_destinations[k].data
          IN /\ Len(data) = 2
             /\ data[1].OBS_VALUE > data[2].OBS_VALUE
             /\ data[1].index > data[2].index

(***************************************************************************)
(* Totals of a cleaned frame.                                              *)
(***************************************************************************)
CatsOf(d) == {d[i].c_resid : i \in DOMAIN d}
EntitiesIn(d, c) == {d[i].geo : i \in {j \in DOMAIN d : d[j].c_resid = c}}
Total(d, g, c) ==
    LET in_pair(r) == r.geo = g /\ r.c_resid = c
        rows == SelectSeq(d, in_pair)
    IN SumSeq([i \in DOMAIN rows |-> rows[i].OBS_VALUE[1]])
Min2(a, b) == IF a < b THEN a ELSE b

(* C11: for N >= 1 the result has one ranking per category of the frame    *)
(* (none for an empty frame); a ranking has min(N, entities) rows, each    *)
(* the sum of its entity's values, and no entity left out has more nights  *)
(* than one that is listed.                                                *)
C11_TopNPerCategory ==
    (Ranked /\ top_n >= 1) =>
        /\ {top_destinations[k].c_resid : k \in DOMAIN top_destinations} = CatsOf(df_clean)
        /\ Len(top_destinations) = Cardinality(CatsOf(df_clean))
        /\ \A k \in DOMAIN top_destinations :
              LET c == top_destinations[k].c_resid
                  data == top_destinations[k].data
                  ents == EntitiesIn(df_clean, c)
                  listed == {data[i].geo : i \in DOMAIN data}
              IN /\ Len(data) = Min2(top_n, Cardinality(ents))
                 /\ Cardinality(listed) = Len(data)
                 /\ listed \subseteq ents
                 /\ \A i \in DOMAIN data :
                       /\ data[i].OBS_VALUE = Total(df_clean, data[i].geo, c)
                       /\ \A g \in ents \ listed :
                             Total(df_clean, g, c) <= data[i].OBS_VALUE

C11_Witness ==
    /\ Ranked
    /\ top_n = 1
    /\ Len(top_destinations) = 2
    /\ \E k \in DOMAIN top_destinations :
          /\ Cardinality(EntitiesIn(df_clean, top_destinations[k].c_resid)) = 2
          /\ Len(top_destinations[k].data) = 1
          /\ \E g \in EntitiesIn(df_clean, top_destinations[k].c_resid) :
                Total(df_clean, g, top_destinations[k].c_resid)
                    < top_destinations[k].data[1].OBS_VALUE

GeoPos(g) == CHOOSE i \in DOMAIN Geos : Geos[i] = g

(* C12: entities of a category with equal total nights are ranked in their *)
(* order in the totals table, and of two tied entities of which only one   *)
(* is listed, the listed one is the earlier.                               *)
C12_TiesKeepEncounterOrder ==
    (Ranked /\ top_n >= 1) =>
        \A k \in DOMAIN top_destinations :
            LET c == top_destinations[k].c_resid
                data == top_destinations[k].data
                listed == {data[i].geo : i \in DOMAIN data}
            IN /\ \A i, j \in DOMAIN data :
                     (i < j /\ data[i].OBS_VALUE = data[j].OBS_VALUE)
                         => data[i].index < data[j].index
               /\ \A i \in DOMAIN data :
                  \A g \in EntitiesIn(df_clean, c) \ listed :
                     Total(df_clean, g, c) = data[i].OBS_VALUE
                         => GeoPos(data[i].geo) < GeoPos(g)

(***************************************************************************)
(* Shown: the panel holds the statistics that on_country_selected has      *)
(* computed on the held snapshot.  Every display that succeeds ends in     *)
(* such a state.  Later the status stays while an error dialog is open:    *)
(* over a panel that a failed display has cleared, or over a cleaned frame *)
(* that a failed reload has put in place of the one displayed; these are   *)
(* not states of a display.                                                *)
(***************************************************************************)
Shown ==
    /\ prog = "app"
    /\ status = "Wyswietlono wyniki"
    /\ stats # NaN
    /\ ~analyze_raises(app_df_clean[1])
LeastOf(S) == CHOOSE m \in S : \A k \in S : m <= k

(* C13: for each category of the selected country that has seasonality    *)
(* records, the viewer reports one highest and one lowest month, each the  *)
(* smallest month number among the months that tie for the extreme mean.   *)
C13_ExtremeMonthIsFirst ==
    Shown =>
        \A k \in DOMAIN stats[1].types :
            LET st == MonthStats(app_df_clean[1], stats[1].country,
                                 stats[1].types[k].c_resid)
                shown == stats[1].types[k].seasonality
            IN WithData(st) # {} =>
                  /\ shown # NaN
                  /\ shown[1].max_month = LeastOf(MaxMonths(st))
                  /\ shown[1].min_month = LeastOf(MinMonths(st))

C13_Witness ==
    /\ Shown
    /\ \E k \in DOMAIN stats[1].types :
          LET st == MonthStats(app_df_clean[1], stats[1].country,
                               stats[1].types[k].c_resid)
          IN /\ Cardinality(MaxMonths(st)) > 1
             /\ 1 \notin MaxMonths(st)
             /\ stats[1].types[k].seasonality[1].max_month = 2
    /\ \E k \in DOMAIN stats[1].types :
          LET st == MonthStats(app_df_clean[1], stats[1].country,
                               stats[1].types[k].c_resid)
          IN /\ Cardinality(MinMonths(st)) > 1
             /\ stats[1].types[k].seasonality[1].min_month = 1

Analyzed ==
    /\ prog = "batch"
    /\ pc \in {"analyzed", "ranked", "plotted", "plots failed", "done"}
RecordsOf(g, c, m) ==
    {i \in DOMAIN seasonality :
        seasonality[i].geo = g /\ seasonality[i].c_resid = c /\ seasonality[i].month = m}

(* C14: analyze_seasonality gives exactly one record to each (entity,      *)
(* category, month) that has observations and none to any other, and the   *)
(* record's mean is the sum of the group's values over their number.       *)
C14_OneRecordPerGroup ==
    Analyzed =>
        /\ \A i \in DOMAIN seasonality :
              /\ <<seasonality[i].geo, seasonality[i].c_resid>> \in PairsOf(df_clean)
              /\ seasonality[i].month \in 1..12
        /\ \A p \in PairsOf(df_clean) :
              LET st == MonthStats(df_clean, p[1], p[2])
              IN \A m \in 1..12 :
                    /\ Cardinality(RecordsOf(p[1], p[2], m))
                          = (IF st[m].cnt > 0 THEN 1 ELSE 0)
                    /\ \A i \in RecordsOf(p[1], p[2], m) :
                          /\ seasonality[i].avg_nights.den > 0
                          /\ seasonality[i].avg_nights.num * st[m].cnt
                                = seasonality[i].avg_nights.den * st[m].sum

C14_Witness ==
    /\ Analyzed
    /\ \E i \in DOMAIN seasonality : seasonality[i].avg_nights.den = 2
    /\ \E p \in PairsOf(df_clean) :
          WithData(MonthStats(df_clean, p[1], p[2])) \notin {{}, 1..12}

(* C15: the record of a group of exactly one observation has a standard    *)
(* deviation of zero, not a missing one.                                   *)
C15_SingleSampleStdIsZero ==
    Analyzed =>
        \A i \in DOMAIN seasonality :
            LET st == MonthStats(df_clean, seasonality[i].geo, seasonality[i].c_resid)
            IN st[seasonality[i].month].cnt = 1 =>
                  /\ seasonality[i].std_nights # NaN
                  /\ seasonality[i].std_nights[1].num = 0


(* The periods the file format allows: a year and a month 1..12. *)
IsYearMonth(p) == p.m \in 1..12

(* C16: load_data fails, returning no frame, when some row's period is not *)
(* a YYYY-MM text; otherwise it returns one row per row read, in order,    *)
(* with a missing value where the value is not a number.                   *)
C16_LoadAllOrNothing ==
    (prog = "batch" /\ pc # "start") =>
        /\ (\E i \in DOMAIN csv : ~IsYearMonth(csv[i].TIME_PERIOD))
              => (pc = "failed" /\ df = <<>>)
        /\ pc # "failed" =>
              /\ Len(df) = Len(csv)
              /\ \A i \in DOMAIN csv :
                    /\ df[i].geo = csv[i].geo
                    /\ df[i].c_resid = csv[i].c_resid
                    /\ df[i].OBS_VALUE = (IF csv[i].OBS_VALUE.txt = "num"
                                          THEN Some(csv[i].OBS_VALUE.n) ELSE NaN)


(* C17: what the viewer holds is one snapshot: with no cleaned frame there *)
(* is no seasonality frame and no country to select; with one, the         *)
(* seasonality frame is analyze_seasonality of it and the country list is  *)
(* its sorted distinct countries.                                          *)
C17_SnapshotConsistent ==
    prog = "app" =>
        IF isna(app_df_clean)
        THEN isna(app_seasonality) /\ countries_list = <<>>
        ELSE /\ ~isna(app_seasonality)
             /\ ~analyze_raises(app_df_clean[1])
             /\ app_seasonality[1] = analyze_seasonality(app_df_clean[1])
             /\ countries_list = sorted_countries(app_df_clean[1])


(* C18: in the report, the destinations listed for a category are the      *)
(* first (up to 5) rows of the category's ranking, in ranking order, and   *)
(* the ordinal printed before the k-th of them is k.                       *)
C18_OrdinalIsRank ==
    Reported =>
        \A k \in DOMAIN top_destinations :
            LET ranking == top_destinations[k].data
                entry == commentary[1].top_destinations[k]
            IN /\ entry.c_resid = top_destinations[k].c_resid
               /\ Len(entry.lines) = Min2(Len(ranking), ReportRows)
               /\ \A i \in DOMAIN entry.lines :
                     /\ entry.lines[i].geo = ranking[i].geo
                     /\ entry.lines[i].OBS_VALUE = ranking[i].OBS_VALUE
                     /\ entry.lines[i].ordinal = i


(* C19: cleaning a cleaned frame changes nothing: clean_data of the output *)
(* of clean_data is that output, on the complete-year path and on the      *)
(* fallback path.                                                          *)
C19_CleanIdempotent == Cleaned => clean_data(df_clean) = df_clean

C19_Witness ==
    /\ Cleaned
    /\ SomeYearQualifies(df)
    /\ \E i \in DOMAIN df : ~Valid(df[i]) /\ Qualifies(df, YearOf(df[i]))
    /\ \E i \in DOMAIN df : Valid(df[i]) /\ ~Qualifies(df, YearOf(df[i]))
    /\ df_clean # <<>>
    /\ Len(df_clean) < Len(df)

=============================================================================
